---- MODULE Spec2Model ----
(***************************************************************************)
(* A model of the rate-limited ballchasing.com client                      *)
(* (aggregation/fetch/ballchasing_api.py) and of the windowed fetcher      *)
(* built on it (aggregation/fetch/get_match_ids.py).                       *)
(*                                                                         *)
(* Durations passed to time.sleep and the entries of RATE_LIMITS are in    *)
(* milliseconds (0.625 s is 625), datetimes are whole seconds, strings     *)
(* that are searched or indexed are sequences of one-character strings.    *)
(***************************************************************************)
EXTENDS Integers, Sequences, FiniteSets, TLC

VARIABLES
    pc,              \* where the caller's program stands
    args,            \* the arguments get_ids was called with
    time_resolution, \* get_ids: the rounded resolution, in seconds
    start_times,     \* get_ids: the start of every sub-window
    sleep_time,      \* the value compute_sleep_time returned last
    idx,             \* get_ids: position of the for loop in start_times
    all_match_ids,   \* get_ids: the ids accumulated so far
    data,            \* get_ids: what api.call returned for the current window
    csv,             \* the outfile: one entry per _append_ids_to_csv call
    result,          \* what get_ids returned
    patron_type,     \* API.patron_type
    failed,          \* API._consecutive_failed_requets
    frames,          \* number of active frames of API.call (0: no call running)
    call_args,       \* url and sleep_time of the running call
    log,             \* the GETs and sleeps of the current outermost call, in order
    response,        \* status and parsed body of the last response received
    ret,             \* what the last outermost call returned
    exc,             \* the exception that was raised last
    ncalls,          \* client session: number of calls made so far
    delay_args,      \* url and num_requests of the last compute_sleep_time
    pings,           \* number of requests made to the ping endpoint
    failed_at_entry, \* the failure counter when the outermost call was entered
    requests         \* get_ids: the GET requests api.call has made in this run

vars == <<pc, args, time_resolution, start_times, sleep_time, idx, all_match_ids,
          data, csv, result, patron_type, failed, frames, call_args, log,
          response, ret, exc, ncalls, delay_args, pings, failed_at_entry,
          requests>>

fetch_vars == <<args, time_resolution, start_times, idx, all_match_ids, data,
                csv, result, failed_at_entry>>

-----------------------------------------------------------------------------
(* Bounds of the exploration *)

\* a fetch is explored when it plans at most this many sub-windows
MaxWindows == 3
\* a client session is explored for this many calls of API.call
MaxCalls == 2
\* datetime.min lies this many minutes before the earliest start explored
MinutesToMin == 3

-----------------------------------------------------------------------------
(* Python values *)

None == [py |-> "None"]

Str(chars) == [py |-> "str", v |-> chars]

\* a float, in thousandths
PyFloat(ms) == [py |-> "float", v |-> ms]

NoExc == [type |-> "none", msg |-> "", code |-> 0]

APIError(msg, code) == [type |-> "APIError", msg |-> msg, code |-> code]

URLError == [type |-> "URLError",
             msg |-> "url is not valid (only /replays and /replays/{id} are supported)",
             code |-> 0]

PyTypeError(msg) == [type |-> "TypeError", msg |-> msg, code |-> 0]

AttributeError == [type |-> "AttributeError",
                   msg |-> "'NoneType' object has no attribute 'days'", code |-> 0]

KeyError(key) == [type |-> "KeyError", msg |-> key, code |-> 0]

\* raised by datetime + timedelta when the sum is not a representable date
OverflowError == [type |-> "OverflowError", msg |-> "date value out of range", code |-> 0]

ResponseOverflowError ==
    [type |-> "ResponseOverflowError",
     msg |-> "data not present for all matches in range, a higher resolution is required",
     code |-> 0]

\* `sub in s` for two strings
Contains(sub, s) ==
    \E i \in 1..(Len(s) - Len(sub) + 1) : SubSeq(s, i, i + Len(sub) - 1) = sub

-----------------------------------------------------------------------------
(* ballchasing_api.py *)

ReplaysSlash == <<"/", "r", "e", "p", "l", "a", "y", "s", "/">>
Replays == <<"/", "r", "e", "p", "l", "a", "y", "s">>

Dual(ps, ph) == [type |-> "dict", per_second |-> ps, per_hour |-> ph]
Fixed(v) == [type |-> "float", value |-> v]

\* the dictionary, in its insertion order
RATE_LIMITS ==
    << [endpoint |-> ReplaysSlash,
        tiers |-> [regular  |-> Dual(625, 4500),
                   gold     |-> Dual(625, 2250),
                   diamond  |-> Dual(313, 900),
                   champion |-> Fixed(156),
                   gc       |-> Fixed(78)]],
       [endpoint |-> Replays,
        tiers |-> [regular  |-> Dual(625, 9000),
                   gold     |-> Dual(625, 4500),
                   diamond  |-> Dual(313, 2250),
                   champion |-> Fixed(156),
                   gc       |-> Fixed(78)]] >>

Tiers == {"regular", "gold", "diamond", "champion", "gc"}

\* the keys of RATE_LIMITS the url contains
MatchingEndpoints(url) ==
    {i \in 1..Len(RATE_LIMITS) : Contains(RATE_LIMITS[i].endpoint, url)}

ValidEndpointAlways(url) == TRUE

\* valid_endpoint after the loop over the keys
ValidEndpoint(url) == MatchingEndpoints(url) # {}

\* the value of `endpoint` after the loop: the first key found in the url, and
\* the last key of the dictionary when the loop ran to its end
EndpointIndex(url) ==
    IF MatchingEndpoints(url) # {}
    THEN CHOOSE i \in MatchingEndpoints(url) : \A j \in MatchingEndpoints(url) : i <= j
    ELSE Len(RATE_LIMITS)

SecondsPerHour == 3600

UsePerSecondInclusive(num_requests, rate_limit) ==
    num_requests * rate_limit.per_hour <= SecondsPerHour * 1000

\* num_requests < 3600 / rate_limit["per_hour"]; the quotient is exact in
\* floating point for every per_hour entry of the table (800, 1600, 4000, 400)
UsePerSecond(num_requests, rate_limit) ==
    num_requests * rate_limit.per_hour < SecondsPerHour * 1000

FixedDelayPerBatch(rate_limit, num_requests) == rate_limit.value * num_requests

\* return rate_limit
FixedDelay(rate_limit, num_requests) == rate_limit.value

\* isinstance(rate_limit, float)
IsFloat(rate_limit) == rate_limit.type = "float"

\* compute_sleep_time: [exc, value]
compute_sleep_time(tier, url, num_requests) ==
    IF ~ValidEndpoint(url)
    THEN [exc |-> URLError, value |-> None]
    ELSE LET rate_limit == RATE_LIMITS[EndpointIndex(url)].tiers[tier]
         IN  IF IsFloat(rate_limit)
             THEN [exc |-> NoExc, value |-> PyFloat(FixedDelay(rate_limit, num_requests))]
             ELSE IF UsePerSecond(num_requests, rate_limit)
                  THEN [exc |-> NoExc, value |-> PyFloat(rate_limit.per_second)]
                  ELSE [exc |-> NoExc, value |-> PyFloat(rate_limit.per_hour)]

RetryCeiling == 10

GivesUpLate(n) == n > RetryCeiling

\* self._consecutive_failed_requets >= 10
GivesUp(n) == n >= RetryCeiling

RECURSIVE Pow2(_)
Pow2(n) == IF n <= 0 THEN 1 ELSE 2 * Pow2(n - 1)

BackoffFromZero(n) == 500 * Pow2(n)

\* backoff_time = 0.5 * 2 ** (n - 1), in milliseconds
Backoff(n) == 500 * Pow2(n - 1)

GetEvent == [op |-> "get", ms |-> 0]
SleepEvent(ms) == [op |-> "sleep", ms |-> ms]

\* What the outermost frame of API.call hands to its caller when the frame
\* that is `depth` deep received the 200: that frame returns r.json(); every
\* frame above it ends after `self.call(url, sleep_time)` without a return
\* statement, which returns None.
CallResult(depth, body) == IF depth = 1 THEN body ELSE None

\* where the caller's program continues when the call returns / raises
AfterReturn == IF pc = "calling" THEN "returned" ELSE "ready"
AfterRaise  == IF pc = "calling" THEN "raised" ELSE "ready"

Running == frames > 0 /\ pc \in {"calling", "client_calling"}

RetryableWide(status) == status \in {429, 500, 503}

\* r.status_code == 429 or r.status_code == 500
Retryable(status) == status \in {429, 500}

SuccessEventsNoSleep(st) == <<GetEvent>>

\* lines 94-104: the request, then time.sleep(sleep_time) before the return
SuccessEvents(st) == <<GetEvent, SleepEvent(st)>>

\* API.call, lines 94-104: the GET is answered 200
call_200(body) ==
    /\ Running
    /\ requests' = IF pc = "calling" THEN requests + 1 ELSE requests
    /\ response' = [status |-> 200, body |-> body]
    /\ failed' = 0
    /\ log' = log \o SuccessEvents(call_args.sleep_time.v)
    /\ ret' = CallResult(frames, body)
    /\ exc' = NoExc
    /\ frames' = 0
    /\ pc' = AfterReturn
    /\ UNCHANGED <<fetch_vars, sleep_time, patron_type, call_args, ncalls, delay_args,
                   pings>>

\* API.call, lines 94 and 106-123: the GET is answered 429 or 500
call_retry(status) ==
    /\ Running
    /\ requests' = IF pc = "calling" THEN requests + 1 ELSE requests
    /\ Retryable(status)
    /\ response' = [status |-> status, body |-> None]
    /\ failed' = failed + 1
    /\ IF GivesUp(failed + 1)
       THEN /\ exc' = APIError("failed after 10 retries with status code", status)
            /\ log' = Append(log, GetEvent)
            /\ frames' = 0
            /\ pc' = AfterRaise
            /\ ret' = ret
       ELSE /\ log' = log \o <<GetEvent, SleepEvent(call_args.sleep_time.v),
                               SleepEvent(Backoff(failed + 1))>>
            /\ frames' = frames + 1
            /\ UNCHANGED <<exc, pc, ret>>
    /\ UNCHANGED <<fetch_vars, sleep_time, patron_type, call_args, ncalls, delay_args,
                   pings>>

call_other_reset(status) ==
    /\ Running
    /\ requests' = IF pc = "calling" THEN requests + 1 ELSE requests
    /\ status # 200 /\ ~Retryable(status)
    /\ response' = [status |-> status, body |-> None]
    /\ exc' = APIError("status code", status)
    /\ log' = Append(log, GetEvent)
    /\ frames' = 0
    /\ pc' = AfterRaise
    /\ ret' = ret
    /\ failed' = 0
    /\ UNCHANGED <<fetch_vars, sleep_time, patron_type, call_args, ncalls,
                   delay_args, pings>>

\* API.call, lines 94 and 124-126: any other status
call_other(status) ==
    /\ Running
    /\ requests' = IF pc = "calling" THEN requests + 1 ELSE requests
    /\ status # 200 /\ ~Retryable(status)
    /\ response' = [status |-> status, body |-> None]
    /\ exc' = APIError("status code", status)
    /\ log' = Append(log, GetEvent)
    /\ frames' = 0
    /\ pc' = AfterRaise
    /\ ret' = ret
    /\ UNCHANGED <<fetch_vars, sleep_time, patron_type, failed, call_args, ncalls,
                   delay_args, pings>>

-----------------------------------------------------------------------------
(* The responses of the server *)

\* {"list": []}
EmptyResult == [list |-> <<>>]

Match(id) == [id |-> id]

Page(count, ids) == [count |-> count, list |-> [i \in 1..Len(ids) |-> Match(ids[i])]]

IdLists == {<<>>, <<"a">>, <<"a", "b">>}

\* `count` is the number of matches of the query and `list` the matches the
\* response carries
Bodies ==
    {EmptyResult}
        \cup {Page(Len(ids), ids) : ids \in IdLists}
        \cup {Page(Len(ids) + 1, ids) : ids \in IdLists \ {<<>>}}
        \cup {Page(9999, <<"a">>), Page(10000, <<"a", "b">>)}

RetryStatuses == {429, 500}
OtherStatuses == {404, 503}
Statuses == RetryStatuses \cup OtherStatuses

-----------------------------------------------------------------------------
(* A session of a caller that creates an API object and uses it *)

ClientUrls ==
    { <<"/", "a", "p", "i">> \o Replays \o <<"?">>,
      <<"/", "a", "p", "i">> \o ReplaysSlash \o <<"x">>,
      <<"/", "a", "p", "i", "/">>,
      <<"/", "r", "e", "p", "l", "a", "y">>,
      <<>> }

\* planned call counts around every threshold of the table
NumRequests ==
    {0, 1, 200000} \cup {b + d : b \in {400, 800, 1600, 4000}, d \in {-1, 0, 1}}

ClientSleepTimes == {PyFloat(0), PyFloat(625)}

\* API.__init__ with ping, lines 43-73
API_init(status, tier) ==
    /\ pc \in {"client_start", "delay_start"}
    /\ pings' = pings + 1
    /\ response' = [status |-> status, body |-> IF status = 200 THEN [type |-> tier] ELSE None]
    /\ failed' = 0
    /\ IF status = 200
       THEN /\ patron_type' = Str(tier)
            /\ exc' = NoExc
            /\ pc' = IF pc = "client_start" THEN "ready" ELSE "delay_ready"
       ELSE /\ patron_type' = None
            /\ exc' = APIError("status code", status)
            /\ pc' = "raised"
    /\ UNCHANGED <<fetch_vars, sleep_time, frames, call_args, log, ret, ncalls,
                   delay_args,
                   requests>>

\* the caller asks for a delay
client_compute_sleep_time(url, num_requests) ==
    /\ pc = "delay_ready"
    /\ delay_args' = [url |-> url, num_requests |-> num_requests]
    /\ LET d == compute_sleep_time(patron_type.v, url, num_requests)
       IN  /\ exc' = d.exc
           /\ sleep_time' = d.value
    /\ UNCHANGED <<pc, fetch_vars, patron_type, failed, frames, call_args, log,
                   response, ret, ncalls, pings,
                   requests>>

\* the caller enters API.call
client_call(url, st) ==
    /\ pc = "ready"
    /\ ncalls < MaxCalls
    /\ ncalls' = ncalls + 1
    /\ call_args' = [url |-> url, sleep_time |-> st]
    /\ frames' = 1
    /\ log' = <<>>
    /\ ret' = None
    /\ exc' = NoExc
    /\ response' = None
    /\ failed_at_entry' = failed
    /\ pc' = "client_calling"
    /\ UNCHANGED <<args, time_resolution, start_times, idx, all_match_ids, data,
                   csv, result, sleep_time, patron_type, failed, delay_args, pings,
                   requests>>

-----------------------------------------------------------------------------
(* get_match_ids.py *)

DateTime(seconds) == [py |-> "datetime", v |-> seconds]
TimeDelta(days, seconds, microseconds) ==
    [py |-> "timedelta", days |-> days, seconds |-> seconds,
     microseconds |-> microseconds]
PyInt(n) == [py |-> "int", v |-> n]
PyList(items) == [py |-> "list", v |-> items]

SecondsPerMinute == 60
SecondsPerDay == 86400
MicrosPerSecond == 1000000

\* the last n characters of s: s[-n:]
Suffix(s, n) == IF Len(s) <= n THEN s ELSE SubSeq(s, Len(s) - n + 1, Len(s))

DotCsv == <<".", "c", "s", "v">>

\* lines 47-68: the first type check that fails, NoExc when none does
TypeCheck(a) ==
    IF a.api_key.py # "str"
    THEN PyTypeError("API key must be of type string")
    ELSE IF a.base_url.py # "str"
    THEN PyTypeError("query base URL must be a string beginning 'https://ballchasing.com/api/replays?'")
    ELSE IF a.start.py # "datetime"
    THEN PyTypeError("start time must be of type datetime")
    ELSE IF a.end.py # "datetime"
    THEN PyTypeError("end time must be of type datetime")
    ELSE IF a.time_resolution # None /\ a.time_resolution.py # "timedelta"
    THEN PyTypeError("time_resolution must be of type timedelta")
    ELSE IF a.outfile # None /\ (a.outfile.py # "str" \/ Suffix(a.outfile.v, 4) # DotCsv)
    THEN PyTypeError("output file path must be a string ending '.csv'")
    ELSE NoExc

\* round(x) for x = whole + num / den with 0 <= num < den: to the nearest
\* integer, a tie to the even one (a tie is a whole number of seconds ending in
\* 30, whose quotient by 60 is exact in floating point)
Round(whole, num, den) ==
    IF 2 * num < den THEN whole
    ELSE IF 2 * num > den THEN whole + 1
    ELSE IF whole % 2 = 0 THEN whole ELSE whole + 1

\* round((seconds + microseconds / 1_000_000) / 60)
RoundedMinutes(td) ==
    Round(td.seconds \div SecondsPerMinute,
          (td.seconds % SecondsPerMinute) * MicrosPerSecond + td.microseconds,
          SecondsPerMinute * MicrosPerSecond)

\* lines 71-74: the resolution rounded to the minute, as a number of seconds
RoundResolution(td) ==
    td.days * SecondsPerDay + SecondsPerMinute * RoundedMinutes(td)

\* lines 77-79
ClampResolution(r) == IF r = 0 THEN SecondsPerMinute ELSE r

\* datetime.min, as seconds relative to the earliest start explored
DateTimeMin == 0 - MinutesToMin * SecondsPerMinute

RECURSIVE StartTimesInclusive(_, _, _)
StartTimesInclusive(start, end, r) ==
    IF start <= end
    THEN <<start>> \o (IF start + r < DateTimeMin THEN <<>>
                       ELSE StartTimesInclusive(start + r, end, r))
    ELSE <<>>

\* lines 82-85: the start of every sub-window; the list built so far when
\* `start += time_resolution` leaves the range of datetime
RECURSIVE StartTimes(_, _, _)
StartTimes(start, end, r) ==
    IF start < end
    THEN <<start>> \o (IF start + r < DateTimeMin THEN <<>>
                       ELSE StartTimes(start + r, end, r))
    ELSE <<>>

\* line 85 raises: the start appended last plus the resolution is before
\* datetime.min
StartOverflows(start, end, r) ==
    LET ts == StartTimes(start, end, r)
    IN  ts # <<>> /\ ts[Len(ts)] + r < DateTimeMin

\* lines 105-108: the end of the window that starts at start_time
WindowEnd(start_time, r, end) ==
    IF start_time + r < end THEN start_time + r ELSE end

\* strftime("%Y-%m-%dT%H:%M:00Z"): the date and time down to the minute,
\* followed by a literal 00 for the seconds
Strftime(t) == [minute |-> t \div SecondsPerMinute, second |-> 0]

\* lines 110-116: the url of one window's request
WindowUrl(base_url, start_time, r, end) ==
    [base |-> IF base_url[Len(base_url)] \in {"?", "&"}
              THEN base_url ELSE Append(base_url, "&"),
     created_after |-> Strftime(start_time),
     created_before |-> Strftime(WindowEnd(start_time, r, end))]

MaxCount == 9999

\* line 125
Overflows(d) == d.count > MaxCount \/ Len(d.list) # d.count

\* line 122, negated: data == {"list": []}
IsEmptyResult(d) == d = EmptyResult

MatchIdsReversed(d) == [i \in 1..Len(d.list) |-> d.list[Len(d.list) + 1 - i].id]

\* lines 131-132
MatchIds(d) == [i \in 1..Len(d.list) |-> d.list[i].id]

\* lines 120-132: [exc, match_ids] for what api.call returned
WindowResult(d) ==
    IF IsEmptyResult(d)
    THEN [exc |-> NoExc, match_ids |-> <<>>]
    ELSE IF d = None
    THEN [exc |-> PyTypeError("'NoneType' object is not subscriptable"),
          match_ids |-> <<>>]
    ELSE IF "count" \notin DOMAIN d
    THEN [exc |-> KeyError("count"), match_ids |-> <<>>]
    ELSE IF Overflows(d)
    THEN [exc |-> ResponseOverflowError, match_ids |-> <<>>]
    ELSE [exc |-> NoExc, match_ids |-> MatchIds(d)]

\* `if outfile:`
Truthy(outfile) == outfile # None /\ outfile.v # <<>>

\* lines 17-92: validation, rounding and the planning of the windows
get_ids_begin(a) ==
    /\ pc = "start"
    /\ args' = a
    /\ IF TypeCheck(a) # NoExc
       THEN /\ exc' = TypeCheck(a)
            /\ pc' = "raised"
            /\ UNCHANGED <<time_resolution, start_times>>
       ELSE IF a.time_resolution = None
       THEN /\ exc' = AttributeError
            /\ pc' = "raised"
            /\ UNCHANGED <<time_resolution, start_times>>
       ELSE LET r == ClampResolution(RoundResolution(a.time_resolution))
            IN  /\ time_resolution' = r
                /\ start_times' = StartTimes(a.start.v, a.end.v, r)
                /\ IF StartOverflows(a.start.v, a.end.v, r)
                   THEN pc' = "raised" /\ exc' = OverflowError
                   ELSE pc' = "planned" /\ exc' = NoExc
    /\ UNCHANGED <<sleep_time, idx, all_match_ids, data, csv, result, patron_type,
                   failed, frames, call_args, log, response, ret, ncalls,
                   delay_args, pings, failed_at_entry,
                   requests>>

PlannedCallsOne(times) == 1

\* line 97: len(start_times)
PlannedCalls(times) == Len(times)

\* lines 96-99: the API object is created (with its ping) and the delay of
\* the batch is computed
get_ids_api(status, tier) ==
    /\ pc = "planned"
    /\ pings' = pings + 1
    /\ response' = [status |-> status, body |-> IF status = 200 THEN [type |-> tier] ELSE None]
    /\ failed' = 0
    /\ IF status # 200
       THEN /\ patron_type' = None
            /\ exc' = APIError("status code", status)
            /\ pc' = "raised"
            /\ UNCHANGED <<sleep_time, delay_args, idx, all_match_ids>>
       ELSE /\ patron_type' = Str(tier)
            /\ delay_args' = [url |-> args.base_url.v,
                              num_requests |-> PlannedCalls(start_times)]
            /\ LET d == compute_sleep_time(tier, args.base_url.v,
                                           PlannedCalls(start_times))
               IN  /\ exc' = d.exc
                   /\ sleep_time' = d.value
                   /\ pc' = IF d.exc = NoExc THEN "loop" ELSE "raised"
            /\ idx' = 1
            /\ all_match_ids' = <<>>
    /\ UNCHANGED <<args, time_resolution, start_times, data, csv, result, frames,
                   call_args, log, ret, ncalls, failed_at_entry,
                   requests>>

\* lines 100-118: the next window's url is built and api.call is entered
get_ids_request ==
    /\ pc = "loop"
    /\ idx <= Len(start_times)
    /\ call_args' = [url |-> WindowUrl(args.base_url.v, start_times[idx],
                                       time_resolution, args.end.v),
                     sleep_time |-> sleep_time]
    /\ frames' = 1
    /\ log' = <<>>
    /\ ret' = None
    /\ failed_at_entry' = failed
    /\ pc' = "calling"
    /\ UNCHANGED <<args, time_resolution, start_times, idx, all_match_ids, data,
                   csv, result, sleep_time, patron_type, failed, response, exc,
                   ncalls, delay_args, pings,
                   requests>>

get_ids_window_flush_first ==
    /\ pc = "returned"
    /\ data' = ret
    /\ LET w == WindowResult(ret)
       IN  IF w.exc # NoExc
           THEN /\ exc' = w.exc
                /\ pc' = "raised"
                /\ csv' = IF Truthy(args.outfile) /\ w.exc = ResponseOverflowError
                          THEN Append(csv, MatchIds(ret)) ELSE csv
                /\ UNCHANGED <<all_match_ids, idx>>
           ELSE /\ all_match_ids' = all_match_ids \o w.match_ids
                /\ csv' = IF Truthy(args.outfile) THEN Append(csv, w.match_ids) ELSE csv
                /\ idx' = idx + 1
                /\ pc' = "loop"
                /\ exc' = NoExc
    /\ UNCHANGED <<args, time_resolution, start_times, sleep_time, result,
                   patron_type, failed, frames, call_args, log, response, ret,
                   ncalls, delay_args, pings, failed_at_entry,
                   requests>>

\* lines 118-143: api.call has returned; the window's result is checked,
\* accumulated and appended to the outfile
get_ids_window ==
    /\ pc = "returned"
    /\ data' = ret
    /\ LET w == WindowResult(ret)
       IN  IF w.exc # NoExc
           THEN /\ exc' = w.exc
                /\ pc' = "raised"
                /\ UNCHANGED <<all_match_ids, csv, idx>>
           ELSE /\ all_match_ids' = all_match_ids \o w.match_ids
                /\ csv' = IF Truthy(args.outfile) THEN Append(csv, w.match_ids) ELSE csv
                /\ idx' = idx + 1
                /\ pc' = "loop"
                /\ exc' = NoExc
    /\ UNCHANGED <<args, time_resolution, start_times, sleep_time, result,
                   patron_type, failed, frames, call_args, log, response, ret,
                   ncalls, delay_args, pings, failed_at_entry,
                   requests>>

\* line 145
get_ids_return ==
    /\ pc = "loop"
    /\ idx > Len(start_times)
    /\ result' = PyList(all_match_ids)
    /\ pc' = "done"
    /\ UNCHANGED <<args, time_resolution, start_times, sleep_time, idx,
                   all_match_ids, data, csv, patron_type, failed, frames, call_args,
                   log, response, ret, exc, ncalls, delay_args, pings,
                   failed_at_entry,
                   requests>>

-----------------------------------------------------------------------------
(* The calls of get_ids that are explored *)

ListUrl == <<"/", "a", "p", "i">> \o Replays \o <<"?">>

FetchUrls ==
    { ListUrl,
      ListUrl \o <<"p">>,
      <<"/", "a", "p", "i">> \o ReplaysSlash \o <<"x">>,
      <<"/", "a", "p", "i", "/">>,
      <<>> }

CsvFile == Str(<<"o">> \o DotCsv)

Day == TimeDelta(1, 0, 0)

DefaultArgs ==
    [api_key |-> Str(<<"k">>), base_url |-> Str(ListUrl), start |-> DateTime(0),
     end |-> DateTime(3 * SecondsPerDay), time_resolution |-> Day, outfile |-> None]

Starts == {0, 30}
Ends == {0, 60, 150, 240, 2 * SecondsPerDay, 3 * SecondsPerDay}
Resolutions ==
    {Day, TimeDelta(0, 20, 0), TimeDelta(0, 30, 1), TimeDelta(0, 90, 0)}

\* timedelta(minutes=-1) and timedelta(minutes=-5), as timedelta normalises
\* them: days = -1 and 0 <= seconds < 86400
NegativeResolutions ==
    {TimeDelta(-1, SecondsPerDay - SecondsPerMinute, 0),
     TimeDelta(-1, SecondsPerDay - 5 * SecondsPerMinute, 0)}

\* the number of windows of a call stays within the bound
Planned(a) ==
    a.end.v - a.start.v
        <= MaxWindows * ClampResolution(RoundResolution(a.time_resolution))

FetchArgs ==
    {[DefaultArgs EXCEPT !.base_url = Str(u), !.outfile = o] :
        u \in FetchUrls, o \in {None, CsvFile}}
    \cup
    {a \in {[DefaultArgs EXCEPT !.start = DateTime(s), !.end = DateTime(e),
                                !.time_resolution = r] :
                s \in Starts, e \in Ends, r \in Resolutions} : Planned(a)}
    \cup
    {[DefaultArgs EXCEPT !.end = DateTime(e), !.time_resolution = r] :
        e \in {0, 60}, r \in NegativeResolutions}
    \cup
    {[DefaultArgs EXCEPT !.api_key = None],
     [DefaultArgs EXCEPT !.base_url = PyInt(1)],
     [DefaultArgs EXCEPT !.start = Str(<<"0">>)],
     [DefaultArgs EXCEPT !.end = None],
     [DefaultArgs EXCEPT !.time_resolution = PyInt(1)],
     [DefaultArgs EXCEPT !.time_resolution = None],
     [DefaultArgs EXCEPT !.outfile = Str(<<"o", ".", "t", "x", "t">>)],
     [DefaultArgs EXCEPT !.outfile = Str(<<>>)],
     [DefaultArgs EXCEPT !.outfile = PyInt(1)]}

PingStatuses == {200, 401, 429}
FetchTiers == {"regular", "champion"}

-----------------------------------------------------------------------------
(* The specification *)

Init ==
    /\ pc \in {"start", "client_start", "delay_start"}
    /\ args = None
    /\ time_resolution = 0
    /\ start_times = <<>>
    /\ sleep_time = None
    /\ idx = 0
    /\ all_match_ids = <<>>
    /\ data = None
    /\ csv = <<>>
    /\ result = None
    /\ patron_type = None
    /\ failed = 0
    /\ frames = 0
    /\ call_args = None
    /\ log = <<>>
    /\ response = None
    /\ ret = None
    /\ exc = NoExc
    /\ ncalls = 0
    /\ delay_args = None
    /\ pings = 0
    /\ failed_at_entry = 0
    /\ requests = 0

Next ==
    \/ \E a \in FetchArgs : get_ids_begin(a)
    \/ \E status \in PingStatuses, tier \in FetchTiers : get_ids_api(status, tier)
    \/ get_ids_request
    \/ get_ids_window
    \/ get_ids_return
    \/ \E body \in Bodies : call_200(body)
    \/ \E status \in Statuses : call_retry(status)
    \/ \E status \in Statuses : call_other(status)
    \/ \E status \in PingStatuses, tier \in Tiers : API_init(status, tier)
    \/ \E url \in ClientUrls, n \in NumRequests : client_compute_sleep_time(url, n)
    \/ \E url \in ClientUrls, st \in ClientSleepTimes : client_call(url, st)

Spec == Init /\ [][Next]_vars

-----------------------------------------------------------------------------
(* The specification with fairness, over fewer inputs *)

FairArgs ==
    {DefaultArgs,
     [DefaultArgs EXCEPT !.outfile = CsvFile],
     [DefaultArgs EXCEPT !.base_url = Str(<<>>)],
     [DefaultArgs EXCEPT !.end = DateTime(0)],
     [DefaultArgs EXCEPT !.end = DateTime(60),
                         !.time_resolution = TimeDelta(-1, SecondsPerDay - SecondsPerMinute, 0)],
     [DefaultArgs EXCEPT !.time_resolution = None]}

FairBodies == {EmptyResult, Page(1, <<"a">>), Page(2, <<"a">>)}

InitFair == Init /\ pc \in {"start", "client_start"}

NextFair ==
    \/ \E a \in FairArgs : get_ids_begin(a)
    \/ \E status \in PingStatuses, tier \in FetchTiers : get_ids_api(status, tier)
    \/ get_ids_request
    \/ get_ids_window
    \/ get_ids_return
    \/ \E body \in FairBodies : call_200(body)
    \/ \E status \in Statuses : call_retry(status)
    \/ \E status \in Statuses : call_other(status)
    \/ \E status \in PingStatuses, tier \in FetchTiers : API_init(status, tier)
    \/ client_call(ListUrl, PyFloat(625))

\* the program is sequential and blocking: while a step that moves it on (to
\* another position, or to another frame of API.call) is possible it takes
\* one, and every request it makes is answered
SpecFair == InitFair /\ [][NextFair]_vars /\ WF_<<pc, frames>>(NextFair)

-----------------------------------------------------------------------------
(* Properties *)

\* the number of GET requests among the first j events of the log
RECURSIVE GetsUpTo(_)
GetsUpTo(j) ==
    IF j = 0 THEN 0
    ELSE GetsUpTo(j - 1) + (IF log[j].op = "get" THEN 1 ELSE 0)

Gets == GetsUpTo(Len(log))

\* the outermost call is over: it has returned or raised to its caller
CallReturned ==
    /\ frames = 0 /\ log # <<>> /\ pc \in {"returned", "ready"} /\ exc = NoExc

RateServerError(e) ==
    e.type = "APIError" /\ e.msg = "failed after 10 retries with status code"

ConnectionError(e) == e.type = "APIError" /\ e.msg = "status code"

CallRaised ==
    /\ frames = 0 /\ log # <<>> /\ pc \in {"raised", "ready"} /\ exc.type = "APIError"

\* C1: a call entered with the failure counter at 0 keeps retrying through
\* its first nine 429/500 responses (after k of them it has made k requests,
\* is k + 1 frames deep and has raised nothing); a 200 that follows at most
\* nine failures makes it return with the counter back at 0; the tenth
\* consecutive 429/500 raises the Rate/Server Error, after exactly ten GET
\* requests.
C1_NineRetriesThenGiveUp ==
    failed_at_entry = 0 =>
        /\ frames > 0 =>
              /\ failed = Gets /\ failed <= 9 /\ frames = failed + 1
              /\ exc = NoExc
        /\ CallReturned =>
              /\ response.status = 200 /\ Gets \in 1..10 /\ failed = 0
        /\ CallRaised /\ response.status \in RetryStatuses =>
              /\ RateServerError(exc) /\ Gets = 10 /\ failed = 10
        /\ CallRaised /\ RateServerError(exc) => Gets = 10

\* nine failures were retried and the tenth request was answered 200
C1_Witness ==
    /\ failed_at_entry = 0 /\ CallReturned /\ Gets = 10 /\ failed = 0
    /\ response.status = 200

\* C2: whenever call returns without raising, what its caller receives is the
\* parsed body of the 200 response that ended the call, however many 429/500
\* responses came before it.
C2_ReturnsBody == CallReturned => ret = response.body

BackoffMillis == <<500, 1000, 2000, 4000, 8000, 16000, 32000, 64000, 128000>>

\* the positions in the log of the requests that were answered 429/500 and
\* retried: every GET but the last, and the last one too while the call runs
RetriedGets ==
    {j \in 1..Len(log) :
        /\ log[j].op = "get"
        /\ \/ frames > 0
           \/ \E j2 \in (j + 1)..Len(log) : log[j2].op = "get"}

\* C4: after the failure that brings the session's counter to N (1 <= N <= 9)
\* the client sleeps the base delay, then 0.5 * 2^(N-1) seconds more, and only
\* then issues the retry: 0.5, 1, 2, ..., 128 seconds for N = 1..9.
C4_BackoffSchedule ==
    \A j \in RetriedGets :
        LET N == failed_at_entry + GetsUpTo(j)
        IN  /\ N \in 1..9
            /\ j + 2 <= Len(log)
            /\ log[j + 1] = SleepEvent(call_args.sleep_time.v)
            /\ log[j + 2] = SleepEvent(BackoffMillis[N])
            /\ j + 3 <= Len(log) => log[j + 3].op = "get"

\* the ninth consecutive failure has just been followed by the 128 s backoff
C4_Witness ==
    /\ frames > 0 /\ failed = 9 /\ failed_at_entry = 0
    /\ log[Len(log)] = SleepEvent(128000)
    /\ log[Len(log) - 1] = SleepEvent(call_args.sleep_time.v)

\* get_ids got past its type checks and the rounding of the resolution
Validated ==
    /\ pc \in {"planned", "loop", "calling", "returned", "raised", "done"}
    /\ args # None
    /\ TypeCheck(args) = NoExc
    /\ args.time_resolution # None

\* the last response received is a window's 200 (not the ping's)
WindowAnswered ==
    /\ response # None /\ response.status = 200
    /\ "list" \in DOMAIN response.body

\* get_ids has dealt with the window that was answered last
WindowProcessed == Validated /\ pc \in {"loop", "raised", "done"} /\ WindowAnswered

\* C3: a window whose request was answered 429/500 between one and nine times
\* before its 200 surfaces no error of its own and yields what the 200 body
\* alone yields; after validation a fetch raises nothing but the
\* Configuration, Connection, Rate/Server and Response Overflow errors.
C3_RetriesAbsorbed ==
    Validated =>
        /\ pc = "raised" =>
              exc.type \in {"URLError", "APIError", "ResponseOverflowError"}
        /\ WindowProcessed /\ Gets \in 2..10 =>
              /\ data = response.body
              /\ exc = WindowResult(response.body).exc

\* the family whose schedule applies to a url: "/replays/" where it occurs,
\* "/replays" otherwise
FamilyOf(url) == IF Contains(ReplaysSlash, url) THEN 1 ELSE 2

\* compute_sleep_time has returned a delay for delay_args
DelayComputed ==
    /\ delay_args # None /\ sleep_time # None
    /\ Contains(Replays, delay_args.url)

\* C5: for the tiers with a per-second and a per-hour entry, the delay is the
\* per-second one when n < 3600 / per_hour and the per-hour one when
\* n >= 3600 / per_hour; n = 400 for regular on the list family gives 9 s.
C5_DualRegime ==
    DelayComputed /\ patron_type.v \in {"regular", "gold", "diamond"} =>
        LET n == delay_args.num_requests
            e == RATE_LIMITS[FamilyOf(delay_args.url)].tiers[patron_type.v]
        IN  /\ n * e.per_hour < 3600000 => sleep_time = PyFloat(e.per_second)
            /\ n * e.per_hour >= 3600000 => sleep_time = PyFloat(e.per_hour)
            /\ (/\ patron_type = Str("regular") /\ FamilyOf(delay_args.url) = 2
                /\ n = 400) => sleep_time = PyFloat(9000)
            /\ (/\ patron_type = Str("regular") /\ FamilyOf(delay_args.url) = 2
                /\ n = 399) => sleep_time = PyFloat(625)

\* exactly at the threshold of regular on the list family
C5_Witness ==
    /\ DelayComputed /\ patron_type = Str("regular")
    /\ FamilyOf(delay_args.url) = 2 /\ delay_args.num_requests = 400
    /\ sleep_time = PyFloat(9000)

\* C6: for champion and gc the delay is the single value of the table,
\* whatever the planned number of calls, 0 and very large ones included.
C6_FixedTiers ==
    DelayComputed /\ patron_type.v \in {"champion", "gc"} =>
        /\ sleep_time = PyFloat(RATE_LIMITS[FamilyOf(delay_args.url)].tiers[patron_type.v].value)
        /\ sleep_time = PyFloat(IF patron_type = Str("champion") THEN 156 ELSE 78)

C6_Witness ==
    /\ DelayComputed /\ patron_type = Str("gc") /\ delay_args.num_requests = 200000
    /\ sleep_time = PyFloat(78)

\* C7: for a url with neither "/replays/" nor "/replays" in it
\* compute_sleep_time raises the URLError, for every tier and planned count;
\* in get_ids this ends the fetch before any window's request: api.call was
\* never entered and nothing was appended to the outfile.
C7_UnsupportedUrl ==
    (/\ delay_args # None
     /\ ~Contains(ReplaysSlash, delay_args.url)
     /\ ~Contains(Replays, delay_args.url)) =>
        /\ exc = URLError
        /\ sleep_time = None
        /\ pc \in {"delay_ready", "raised"}
        /\ frames = 0 /\ call_args = None /\ log = <<>> /\ csv = <<>>
        /\ result = None

\* a fetch with an outfile stopped by the URLError, after its ping
C7_Witness ==
    /\ pc = "raised" /\ exc = URLError /\ args # None /\ args.outfile = CsvFile
    /\ args.base_url.v # <<>> /\ pings = 1 /\ call_args = None /\ csv = <<>>

\* C8: a window's response that is not {"list": []} makes get_ids raise the
\* ResponseOverflowError (and stop requesting) when its count exceeds 9999 or
\* differs from the length of its list, and raises no such error otherwise.
C8_OverflowDetected ==
    WindowProcessed /\ response.body # EmptyResult =>
        IF \/ response.body.count > 9999
           \/ response.body.count # Len(response.body.list)
        THEN pc = "raised" /\ exc = ResponseOverflowError /\ frames = 0
        ELSE exc # ResponseOverflowError

\* C9: a window answered exactly {"list": []} raises no overflow error, adds
\* no identifier, and the fetch goes on with the next window.
C9_EmptyResultSkipsChecks ==
    WindowProcessed /\ response.body = EmptyResult =>
        /\ exc = NoExc
        /\ pc \in {"loop", "done"}
        /\ data = EmptyResult
        /\ Truthy(args.outfile) => csv # <<>> /\ csv[Len(csv)] = <<>>

\* C10: for start < end and the rounded resolution r (at least a minute) the
\* windows are ceil((end - start) / r) in number, the first starts at start,
\* each ends where the next starts, all but the last are r long, and the last
\* ends at end; three days at a resolution of one day are three windows.
C10_Windows ==
    Validated /\ args.start.v < args.end.v /\ time_resolution >= 60 =>
        LET n == Len(start_times)
            r == time_resolution
            s == args.start.v
            e == args.end.v
        IN  /\ r % 60 = 0
            /\ n = (e - s + r - 1) \div r
            /\ n >= 1
            /\ start_times[1] = s
            /\ \A i \in 1..(n - 1) :
                  /\ WindowEnd(start_times[i], r, e) = start_times[i + 1]
                  /\ start_times[i + 1] - start_times[i] = r
            /\ WindowEnd(start_times[n], r, e) = e
            /\ e - start_times[n] \in 1..r
            /\ (e - s = 3 * 86400 /\ r = 86400) => n = 3
            /\ pc = "calling" =>
                  /\ call_args.url.created_after = Strftime(start_times[idx])
                  /\ call_args.url.created_before =
                        Strftime(IF idx < n THEN start_times[idx + 1] ELSE e)

\* [T, T + 3d) at one day: three windows, the last one being requested
C10_Witness ==
    /\ Validated /\ args.end.v - args.start.v = 3 * 86400 /\ time_resolution = 86400
    /\ Len(start_times) = 3 /\ pc = "calling" /\ idx = 3

\* the identifiers a response body lists, in its order
IdsOf(body) == [i \in 1..Len(body.list) |-> body.list[i].id]

\* the rows of the outfile, batch after batch
RECURSIVE Rows(_)
Rows(batches) ==
    IF batches = <<>> THEN <<>> ELSE Head(batches) \o Rows(Tail(batches))

\* get_ids completes the window it was answered for
WindowCompletes == pc = "returned" /\ pc' = "loop"

\* C11: in a fetch with an outfile, once a window is completed the rows
\* appended to the outfile are the accumulated result, one append per
\* completed window; completing a window appends its response's identifiers,
\* in the response's order and with nothing dropped or merged, to both; the
\* list returned at the end is that accumulation.
C11_SinkMirrorsResult ==
    /\ [](Validated /\ Truthy(args.outfile) /\ idx >= 1 =>
            /\ Rows(csv) = all_match_ids
            /\ Len(csv) = idx - 1
            /\ pc = "done" =>
                  /\ result = PyList(all_match_ids)
                  /\ Len(csv) = Len(start_times))
    /\ [][WindowCompletes =>
            /\ all_match_ids' = all_match_ids \o IdsOf(response.body)
            /\ idx' = idx + 1
            /\ Truthy(args.outfile) => csv' = Append(csv, IdsOf(response.body))
            /\ ~Truthy(args.outfile) => csv' = csv]_vars

\* windows of 2, 1 and 2 identifiers: three appends of those sizes and a
\* result of 5, the repeated identifiers kept where they came
C11_Witness ==
    /\ pc = "done" /\ Truthy(args.outfile)
    /\ csv = << <<"a", "b">>, <<"a">>, <<"a", "b">> >>
    /\ result = PyList(<<"a", "b", "a", "a", "b">>)

\* get_ids was called with arguments of the right types
WellTyped ==
    /\ pc \in {"planned", "loop", "calling", "returned", "raised", "done"}
    /\ args # None
    /\ TypeCheck(args) = NoExc

\* C12: get_ids called with start >= end raises the validation error
\* (TypeError) before any network activity: no ping and no window request.
C12_InvertedRangeRejected ==
    WellTyped /\ args.start.v >= args.end.v =>
        /\ pc = "raised"
        /\ exc.type = "TypeError"
        /\ pings = 0
        /\ call_args = None

\* C19: get_ids called with time_resolution=None passes validation and goes
\* on as with a resolution of one day: nothing is raised for it and the
\* windows are one day long.
C19_NoneResolutionIsOneDay ==
    WellTyped /\ args.time_resolution = None =>
        /\ exc.type # "AttributeError"
        /\ time_resolution = SecondsPerDay
        /\ start_times = StartTimes(args.start.v, args.end.v, SecondsPerDay)

\* C13: a response whose status is none of 200, 429 and 500 ends the call at
\* once with the Connection Error carrying that status: the GET it answered
\* is the last event of the call (no sleep and no request after it), and the
\* failure counter, whatever its value, is where the retries before it left it.
C13_OtherStatusRaisesAtOnce ==
    log # <<>> /\ response.status \notin {200, 429, 500} =>
        /\ frames = 0
        /\ pc \in {"raised", "ready"}
        /\ ConnectionError(exc) /\ exc.code = response.status
        /\ log[Len(log)] = GetEvent
        /\ failed = failed_at_entry + Gets - 1
        /\ Gets = 1 => log = <<GetEvent>>

\* a call entered with the counter at 10 and answered 503
C13_Witness ==
    /\ CallRaised /\ ConnectionError(exc) /\ response.status = 503
    /\ failed_at_entry = 10 /\ failed = 10 /\ log = <<GetEvent>>

\* get_ids raises the ResponseOverflowError for the window it was answered for
WindowOverflows ==
    pc = "returned" /\ pc' = "raised" /\ exc' = ResponseOverflowError

\* C14: when a fetch with an outfile is stopped by the ResponseOverflowError
\* at window i, the outfile holds the identifiers of the i - 1 windows
\* completed before it, one append per window and in their order; the step
\* that raises writes nothing to the outfile and removes nothing from it, and
\* get_ids returns no list.
C14_OverflowKeepsFlushed ==
    /\ [](pc = "raised" /\ exc = ResponseOverflowError /\ Truthy(args.outfile) =>
            /\ Overflows(data)
            /\ Len(csv) = idx - 1
            /\ Rows(csv) = all_match_ids
            /\ result = None)
    /\ [][WindowOverflows =>
            /\ csv' = csv
            /\ all_match_ids' = all_match_ids
            /\ result' = None]_vars

\* two windows completed, the third one truncated
C14_Witness ==
    /\ pc = "raised" /\ exc = ResponseOverflowError /\ Truthy(args.outfile)
    /\ idx = 3 /\ csv = << <<"a", "b">>, <<"a">> >>
    /\ data = Page(3, <<"a", "b">>) /\ result = None

\* C15: whatever resolution get_ids is given, the resolution the windows are
\* generated with is a whole number of minutes and at least one minute, so
\* the loop that generates them ends with start times that strictly increase.
C15_ResolutionAtLeastOneMinute ==
    Validated =>
        /\ time_resolution % SecondsPerMinute = 0
        /\ time_resolution >= SecondsPerMinute
        /\ exc.type # "OverflowError"
        /\ \A i \in 1..(Len(start_times) - 1) : start_times[i] < start_times[i + 1]

\* C16: in a run of get_ids every GET of api.call that is followed by
\* anything is followed first by a sleep of the batch's delay; a GET that is
\* retried is followed by that sleep and then by the backoff sleep, and only
\* then by the next GET; and when the loop goes on to the next window the
\* last call ended with its GET and the sleep of the batch's delay.
C16_SleepBetweenRequests ==
    args # None /\ call_args # None =>
        /\ \A j \in 1..(Len(log) - 1) :
              log[j].op = "get" => log[j + 1] = [op |-> "sleep", ms |-> sleep_time.v]
        /\ \A j \in 1..Len(log) :
              (log[j].op = "get" /\ \E j2 \in (j + 1)..Len(log) : log[j2].op = "get") =>
                  /\ log[j + 1] = [op |-> "sleep", ms |-> sleep_time.v]
                  /\ log[j + 2] = [op |-> "sleep", ms |-> BackoffMillis[GetsUpTo(j)]]
                  /\ log[j + 3].op = "get"
        /\ pc = "loop" /\ idx > 1 =>
              /\ Len(log) >= 2
              /\ log[Len(log) - 1].op = "get"
              /\ log[Len(log)] = [op |-> "sleep", ms |-> sleep_time.v]

\* the second window's request was answered 429 once and then 200
C16_Witness ==
    /\ args # None /\ pc = "returned" /\ idx = 2 /\ sleep_time = PyFloat(625)
    /\ log = << [op |-> "get", ms |-> 0], [op |-> "sleep", ms |-> 625],
                [op |-> "sleep", ms |-> 500], [op |-> "get", ms |-> 0],
                [op |-> "sleep", ms |-> 625] >>

\* the loop over the windows of get_ids is running
InLoop == args # None /\ pc \in {"loop", "calling", "returned"}

\* C17: every window's request of a run of get_ids is made with the one
\* delay compute_sleep_time gave for the base url and the number of planned
\* windows; once the loop runs, neither the delay nor the arguments it was
\* computed for change, whatever the responses and retries.
C17_DelayComputedOnce ==
    /\ [](args # None /\ call_args # None =>
            /\ call_args.sleep_time = sleep_time
            /\ delay_args.url = args.base_url.v
            /\ delay_args.num_requests = Len(start_times)
            /\ sleep_time = compute_sleep_time(patron_type.v, args.base_url.v,
                                               Len(start_times)).value
            /\ Contains(Replays, args.base_url.v)
                    /\ patron_type = Str("champion") => sleep_time = PyFloat(156)
            /\ Contains(Replays, args.base_url.v)
                    /\ patron_type = Str("regular") => sleep_time = PyFloat(625))
    /\ [][InLoop => sleep_time' = sleep_time /\ delay_args' = delay_args]_vars

\* the third of three windows is being requested, after retries
C17_Witness ==
    /\ InLoop /\ pc = "calling" /\ idx = 3 /\ frames = 3
    /\ delay_args.num_requests = 3
    /\ call_args.sleep_time = PyFloat(156)

\* C18: a call entered with the failure counter at 0 makes at most 10 GET
\* requests and is at most 10 frames deep (9 nested retries), whatever the
\* statuses, and it ends; a run of get_ids over k windows makes at most
\* 10 * k requests through api.call and ends, by returning or by raising.
C18_Terminates ==
    /\ [](failed_at_entry = 0 => Gets <= 10 /\ frames <= 10)
    /\ [](args # None => requests <= 10 * Len(start_times))
    /\ (frames > 0 ~> frames = 0)
    /\ (pc = "start" ~> pc \in {"done", "raised"})

\* two windows answered at once, the third one given up after ten requests
C18_Witness ==
    /\ args # None /\ pc = "raised" /\ RateServerError(exc)
    /\ Len(start_times) = 3 /\ idx = 3 /\ requests = 12 /\ Gets = 10

\* a request of API.call is answered in this step
Answered == Len(log') > Len(log)

====
